---- MODULE Spec2Model ----
(***************************************************************************)
(* Persistence layer of go-health-tracker: the storage contract as it is   *)
(* implemented by the in-memory test double (MockDB), by the embedded      *)
(* backend (SQLiteDB, transactions through withTxContext) and by the       *)
(* client-server backend (PostgresDB).                                     *)
(*                                                                         *)
(* A time.Time value is a record [day |-> <<year, month, day>>, tod |-> n] *)
(* where tod is the time of day (0 is midnight).  A health record is       *)
(* [ID, Date, StepCount, CreatedAt, UpdatedAt].  A Go map is a function    *)
(* whose DOMAIN is the set of keys present.                                *)
(***************************************************************************)
EXTENDS Integers, Sequences, FiniteSets, TLC

\* ------------------------------------------------------------------------
\* Bounds of the model
\* ------------------------------------------------------------------------
MaxClock == 1
MaxSteps == 2
MaxTod == 1

StepValues == 1..MaxSteps
TodValues == 0..MaxTod

\* ------------------------------------------------------------------------
\* time.Time values
\* ------------------------------------------------------------------------
ZeroDay == <<1, 1, 1>>

MkTime(d, t) == [day |-> d, tod |-> t]

ZeroTime == MkTime(ZeroDay, 0)

IsZero(t) == t = ZeroTime

DayLess(a, b) ==
    \/ a[1] < b[1]
    \/ a[1] = b[1] /\ a[2] < b[2]
    \/ a[1] = b[1] /\ a[2] = b[2] /\ a[3] < b[3]

\* t.Before(u)
Before(t, u) == DayLess(t.day, u.day) \/ (t.day = u.day /\ t.tod < u.tod)

Year(t) == t.day[1]

Month(t) == t.day[2]

normalizeDate(t) == MkTime(t.day, 0)

\* Removing a key from a Go map / deleting a row.
MapDelete(m, k) == [x \in (DOMAIN m) \ {k} |-> m[x]]

MapPut(m, k, v) == [x \in (DOMAIN m) \cup {k} |-> IF x = k THEN v ELSE m[x]]

EmptyMap == [x \in {} |-> 0]

\* The nil *models.HealthRecord.
NoRow == [ID |-> 0]

VARIABLES
    clock,                  \* the wall clock read by time.Now()
    records,                \* MockDB.records
    simulateTimeout,        \* MockDB fault toggles
    simulateContextCancel,
    simulateDBError,
    mret,                   \* the last MockDB call and what it returned
    table,                  \* SQLite: the committed rows of health_records
    seq,                    \* SQLite: the AUTOINCREMENT sequence of the table
    pc,                     \* SQLite: where each caller is in its operation
    call,                   \* SQLite: the operation each caller runs
    ctxDone,                \* SQLite: whether the caller's context is done
    txw,                    \* SQLite: each caller's tx (none, open, or its write)
    res,                    \* SQLite: what each caller's last operation returned
    writer,                 \* SQLite: the caller holding the engine's write lock
    readers,                \* SQLite: callers whose open tx holds a read lock
    last,                   \* per date, the StepCount of the latest successful write
    pgTable,                \* Postgres: the committed rows of health_records
    pgSeq,                  \* Postgres: the SERIAL sequence of the table
    pgPc,                   \* Postgres: where each caller is in its operation
    pgCall,                 \* Postgres: the operation each caller runs
    pgCtxDone,              \* Postgres: whether the caller's context is done
    pgTx,                   \* Postgres: the uncommitted write of each caller's tx
    pgRes,                  \* Postgres: what each caller's last operation returned
    pgLock,                 \* Postgres: the caller whose tx holds the row lock
    pgHeld,                 \* Postgres: pool connections acquired and not released
    rq,                     \* the last range query and the lists it returned
    sqlDB,                  \* SQLiteDB.DB, the embedded *sql.DB: nil, open or closed
    Stmts,                  \* SQLiteDB.Stmts: per prepared statement, open or closed
    pool,                   \* PostgresDB.pool: nil, open or closed
    closeRet,               \* the last Close call and what it returned
    hreq,                   \* the update handler: where it is and what it answered
    held,                   \* a record a caller of MockDB was handed and still holds
    newRet                  \* per backend, the error its constructor returned

mockVars == <<records, simulateTimeout, simulateContextCancel, simulateDBError, mret>>

sqlVars == <<table, seq, pc, call, ctxDone, txw, res, writer, readers, last>>

pgVars == <<pgTable, pgSeq, pgPc, pgCall, pgCtxDone, pgTx, pgRes, pgLock, pgHeld>>

handleVars == <<sqlDB, Stmts, pool, closeRet>>

callerVars == <<hreq, held>>

\* What the operations of one implementation leave alone.
MockStoreFrame == UNCHANGED <<sqlVars, pgVars, rq, handleVars, newRet>>

MockFrame == MockStoreFrame /\ UNCHANGED callerVars

SqlFrame == UNCHANGED <<mockVars, pgVars, rq, handleVars, callerVars, newRet>>

PgFrame == UNCHANGED <<mockVars, sqlVars, rq, handleVars, callerVars, newRet>>

\* time.Now(): the clock never goes backwards; two reads may see the same instant.
NowValues(c) == {t \in c..(c + 1) : t <= MaxClock}

\* ------------------------------------------------------------------------
\* MockDB
\* ------------------------------------------------------------------------
MockDays == {<<2024, 1, 1>>, <<2024, 1, 2>>}

MockTimes == {MkTime(d, t) : d \in MockDays, t \in TodValues} \cup {ZeroTime}

\* A check that forgets the connection-error toggle.
checkContextWithoutDBError ==
    IF simulateTimeout THEN "DeadlineExceeded"
    ELSE IF simulateContextCancel THEN "Canceled"
    ELSE "nil"

\* A check that looks at the cancel toggle first.
checkContextCancelFirst ==
    IF simulateContextCancel THEN "Canceled"
    ELSE IF simulateTimeout THEN "DeadlineExceeded"
    ELSE IF simulateDBError THEN "ErrDataBaseConnection"
    ELSE "nil"

checkContext ==
    IF simulateTimeout THEN "DeadlineExceeded"
    ELSE IF simulateContextCancel THEN "Canceled"
    ELSE IF simulateDBError THEN "ErrDataBaseConnection"
    ELSE "nil"

NewMockDB ==
    /\ records = EmptyMap
    /\ simulateTimeout = FALSE
    /\ simulateContextCancel = FALSE
    /\ simulateDBError = FALSE
    /\ mret = [op |-> "none", date |-> ZeroTime, steps |-> 0, err |-> "nil", rec |-> NoRow]

\* No request is being handled and no caller holds a record.
HandlerIdle == [pc |-> "idle", date |-> ZeroTime, resp |-> "none", rec |-> NoRow]

NoHeld == [alias |-> FALSE, rec |-> NoRow]

NoCallers == hreq = HandlerIdle /\ held = NoHeld

\* What a call hands back: its error and, for a read, the record.
MockReturn(op, date, steps, err) ==
    mret' = [op |-> op, date |-> date, steps |-> steps, err |-> err, rec |-> NoRow]

MockReturnRecord(op, date, rec) ==
    mret' = [op |-> op, date |-> date, steps |-> 0, err |-> "nil", rec |-> rec]

SetSimulateTimeout(b) ==
    /\ MockFrame
    /\ simulateTimeout' = b
    /\ UNCHANGED <<clock, records, simulateContextCancel, simulateDBError, mret>>

SetSimulateContextCancel(b) ==
    /\ MockFrame
    /\ simulateContextCancel' = b
    /\ UNCHANGED <<clock, records, simulateTimeout, simulateDBError, mret>>

SetSimulateDBError(b) ==
    /\ MockFrame
    /\ simulateDBError' = b
    /\ UNCHANGED <<clock, records, simulateTimeout, simulateContextCancel, mret>>

\* The key the duplicate check of CreateHealthRecord looks up (db.go:87).
MockCreateLookupKey(hrDate) == hrDate

\* The id given to a new record (db.go:92).
MockNextID(recs) == Cardinality(DOMAIN recs) + 1

MockCreateHealthRecordCall(hrDate, hrSteps) ==
    /\ MockStoreFrame
    /\ UNCHANGED <<simulateTimeout, simulateContextCancel, simulateDBError>>
    /\ IF checkContext # "nil"
         THEN /\ MockReturn("create", hrDate, hrSteps, checkContext)
              /\ UNCHANGED <<clock, records>>
       ELSE IF IsZero(normalizeDate(hrDate))
         THEN /\ MockReturn("create", hrDate, hrSteps, "date is required")
              /\ UNCHANGED <<clock, records>>
       ELSE IF MockCreateLookupKey(hrDate) \in DOMAIN records
         THEN /\ MockReturn("create", hrDate, hrSteps, "ErrDuplicateRecord")
              /\ UNCHANGED <<clock, records>>
       ELSE \E c \in NowValues(clock) : \E u \in NowValues(c) :
              LET record == [ID |-> MockNextID(records),
                             Date |-> normalizeDate(hrDate),
                             StepCount |-> hrSteps,
                             CreatedAt |-> c,
                             UpdatedAt |-> u]
              IN /\ records' = MapPut(records, normalizeDate(hrDate), record)
                 /\ clock' = u
                 /\ MockReturn("create", hrDate, hrSteps, "nil")

MockReadHealthRecordCall(date) ==
    /\ MockStoreFrame
    /\ UNCHANGED <<clock, records, simulateTimeout, simulateContextCancel, simulateDBError>>
    /\ IF checkContext # "nil"
         THEN MockReturn("read", date, 0, checkContext)
       ELSE IF normalizeDate(date) \notin DOMAIN records
         THEN MockReturnRecord("read", date, NoRow)
       ELSE MockReturnRecord("read", date, records[normalizeDate(date)])

\* A plausible slip: the update also restamps the creation time.
MockUpdatedRecordRestamped(record, hrSteps, now) ==
    [record EXCEPT !.StepCount = hrSteps, !.UpdatedAt = now, !.CreatedAt = now]

\* The two assignments of UpdateHealthRecord (db.go:200-201).
MockUpdatedRecord(record, hrSteps, now) ==
    [record EXCEPT !.StepCount = hrSteps, !.UpdatedAt = now]

MockUpdateHealthRecordCall(hrDate, hrSteps) ==
    /\ MockStoreFrame
    /\ UNCHANGED <<simulateTimeout, simulateContextCancel, simulateDBError>>
    /\ IF checkContext # "nil"
         THEN /\ MockReturn("update", hrDate, hrSteps, checkContext)
              /\ UNCHANGED <<clock, records>>
       ELSE IF normalizeDate(hrDate) \notin DOMAIN records
         THEN /\ MockReturn("update", hrDate, hrSteps, "ErrRecordNotFound")
              /\ UNCHANGED <<clock, records>>
       ELSE \E u \in NowValues(clock) :
              LET k == normalizeDate(hrDate)
              IN /\ records' = [records EXCEPT ![k] = MockUpdatedRecord(@, hrSteps, u)]
                 /\ clock' = u
                 /\ MockReturn("update", hrDate, hrSteps, "nil")

MockDeleteHealthRecordCall(date) ==
    /\ MockStoreFrame
    /\ UNCHANGED <<clock, simulateTimeout, simulateContextCancel, simulateDBError>>
    /\ IF checkContext # "nil"
         THEN /\ MockReturn("delete", date, 0, checkContext)
              /\ UNCHANGED records
       ELSE IF normalizeDate(date) \notin DOMAIN records
         THEN /\ MockReturn("delete", date, 0, "ErrRecordNotFound")
              /\ UNCHANGED records
       ELSE /\ records' = MapDelete(records, normalizeDate(date))
            /\ MockReturn("delete", date, 0, "nil")

\* GetStoredRecordDirectly: the stored record of the day of date, nil when
\* there is none; it does not look at the toggles.
GetStoredRecordDirectly(recs, date) ==
    IF normalizeDate(date) \in DOMAIN recs THEN recs[normalizeDate(date)] ELSE NoRow

\* An operation called by a caller that keeps no result and is no handler.
MockCreateHealthRecord(hrDate, hrSteps) ==
    MockCreateHealthRecordCall(hrDate, hrSteps) /\ UNCHANGED callerVars

MockReadHealthRecord(date) ==
    MockReadHealthRecordCall(date) /\ UNCHANGED callerVars

MockUpdateHealthRecord(hrDate, hrSteps) ==
    MockUpdateHealthRecordCall(hrDate, hrSteps) /\ UNCHANGED callerVars

MockDeleteHealthRecord(date) ==
    MockDeleteHealthRecordCall(date) /\ UNCHANGED callerVars

MockNext ==
    \/ \E t \in MockTimes : \E s \in StepValues : MockCreateHealthRecord(t, s)
    \/ \E t \in MockTimes : MockReadHealthRecord(t)
    \/ \E t \in MockTimes : \E s \in StepValues : MockUpdateHealthRecord(t, s)
    \/ \E t \in MockTimes : MockDeleteHealthRecord(t)

vars == <<clock, mockVars, sqlVars, pgVars, rq, handleVars, callerVars, newRet>>

\* ------------------------------------------------------------------------
\* SQLiteDB (embedded backend)
\* ------------------------------------------------------------------------
Procs == {"c1", "c2"}

MaxSeq == 3

\* The date the callers work on, and the date of a record that is in the
\* database file already when it is opened.
SqlDays == {<<2024, 1, 1>>}

SqlTimes == {MkTime(d, 0) : d \in SqlDays}

SiblingTime == MkTime(<<2024, 1, 2>>, 0)

SiblingRow ==
    [ID |-> 1, Date |-> SiblingTime, StepCount |-> 1, CreatedAt |-> 0, UpdatedAt |-> 0]

NoCall == [op |-> "none", date |-> ZeroTime, steps |-> 0]

NoWrite == [kind |-> "none"]

\* The *sql.Tx db.BeginTx returned, before any statement has written.
OpenTx == [kind |-> "open"]

NoResult == [err |-> "none", rec |-> NoRow]

\* Positions inside withTxContext; at "deref" the body is about to evaluate
\* hr.Date of a nil hr.
InTx == {"insert", "probe", "write", "recheck", "commit", "deref"}

InProgress == {"read"} \cup InTx

\* NewSQLiteDB on a database file that holds the sibling record: CREATE TABLE
\* IF NOT EXISTS keeps the rows, the statements are prepared, nobody is calling.
NewSQLiteDB ==
    /\ table = MapPut(EmptyMap, SiblingTime, SiblingRow)
    /\ seq = SiblingRow.ID
    /\ pc = [p \in Procs |-> "idle"]
    /\ call = [p \in Procs |-> NoCall]
    /\ ctxDone = [p \in Procs |-> FALSE]
    /\ txw = [p \in Procs |-> NoWrite]
    /\ res = [p \in Procs |-> NoResult]
    /\ writer = "none"
    /\ readers = {}
    /\ last = MapPut(EmptyMap, SiblingTime, SiblingRow.StepCount)

\* The end of a transaction of p, committed or rolled back: its locks go.
SqlTxEnd(p) ==
    /\ txw' = [txw EXCEPT ![p] = NoWrite]
    /\ writer' = IF writer = p THEN "none" ELSE writer
    /\ readers' = readers \ {p}

\* The operation of p returns: p is idle again, holding what it was handed.
SqlReturn(p, err, rec) ==
    /\ pc' = [pc EXCEPT ![p] = "idle"]
    /\ call' = [call EXCEPT ![p] = NoCall]
    /\ ctxDone' = [ctxDone EXCEPT ![p] = FALSE]
    /\ res' = [res EXCEPT ![p] = [err |-> err, rec |-> rec]]

\* tx.Rollback(): database/sql marks the Tx done and gives its connection
\* back whether or not the driver reports an error (failed says it did).
SqlRollback(p, failed) == SqlTxEnd(p)

\* withTxContext, body returned err: Rollback, then return err (or err wrapped
\* together with the rollback's own error, which still wraps err).
SqlBodyFails(p, err) ==
    /\ \E failed \in BOOLEAN : SqlRollback(p, failed)
    /\ SqlReturn(p, err, NoRow)
    /\ UNCHANGED <<clock, table, seq, last>>

\* A caller enters CreateHealthRecord, UpdateHealthRecord or
\* DeleteHealthRecord with a context that is done already or still live:
\* getStmt finds the statement prepared by NewSQLiteDB, then withTxContext
\* runs db.BeginTx(ctx, nil), which refuses a done context and may fail.
SqlCall(p, op, date, steps, done) ==
    /\ SqlFrame
    /\ pc[p] = "idle"
    /\ op = "create" => seq < MaxSeq
    /\ UNCHANGED <<clock, table, seq, writer, readers, last>>
    /\ IF done
         THEN SqlReturn(p, "ctx", NoRow) /\ UNCHANGED txw
         ELSE \/ SqlReturn(p, "begin", NoRow) /\ UNCHANGED txw
              \/ /\ call' = [call EXCEPT ![p] = [op |-> op, date |-> date, steps |-> steps]]
                 /\ pc' = [pc EXCEPT ![p] = IF op = "create" THEN "insert" ELSE "probe"]
                 /\ txw' = [txw EXCEPT ![p] = OpenTx]
                 /\ res' = [res EXCEPT ![p] = NoResult]
                 /\ UNCHANGED ctxDone

\* A caller enters CreateHealthRecord or UpdateHealthRecord with hr == nil
\* and a live context: getStmt and BeginTx do not look at hr.
SqlCallNil(p, op) ==
    /\ SqlFrame
    /\ pc[p] = "idle"
    /\ UNCHANGED <<clock, table, seq, writer, readers, last>>
    /\ \/ SqlReturn(p, "begin", NoRow) /\ UNCHANGED txw
       \/ /\ call' = [call EXCEPT ![p] = [op |-> op, date |-> ZeroTime, steps |-> 0]]
          /\ pc' = [pc EXCEPT ![p] = "deref"]
          /\ txw' = [txw EXCEPT ![p] = OpenTx]
          /\ res' = [res EXCEPT ![p] = NoResult]
          /\ UNCHANGED ctxDone

\* A caller enters ReadHealthRecord.
SqlCallRead(p, date) ==
    /\ SqlFrame
    /\ pc[p] = "idle"
    /\ call' = [call EXCEPT ![p] = [op |-> "read", date |-> date, steps |-> 0]]
    /\ pc' = [pc EXCEPT ![p] = "read"]
    /\ res' = [res EXCEPT ![p] = NoResult]
    /\ UNCHANGED <<clock, table, seq, ctxDone, txw, writer, readers, last>>

\* The caller's context is cancelled or reaches its deadline.
SqlCancel(p) ==
    /\ SqlFrame
    /\ pc[p] \in InProgress
    /\ ~ctxDone[p]
    /\ ctxDone' = [ctxDone EXCEPT ![p] = TRUE]
    /\ UNCHANGED <<clock, table, seq, pc, call, txw, res, writer, readers, last>>

\* A deferred function that lets the panic pass without a rollback.
SqlDeferredWithoutRollback(p) == UNCHANGED <<txw, writer, readers>>

\* withTxContext's deferred function when the body panicked: recover,
\* tx.Rollback() with its error dropped, panic again.
SqlDeferred(p) == SqlRollback(p, FALSE) \/ SqlRollback(p, TRUE)

\* The body evaluates hr.Date for its first statement: with hr == nil it
\* panics before the statement runs, the deferred function acts, and the
\* panic reaches the caller of the operation.
SqlBodyPanics(p) ==
    /\ SqlFrame
    /\ pc[p] = "deref"
    /\ SqlDeferred(p)
    /\ SqlReturn(p, "panic", NoRow)
    /\ UNCHANGED <<clock, table, seq, last>>

\* The id AUTOINCREMENT gives to a new row.
SqlNextID(s) == s + 1

\* Whether the INSERT hits the UNIQUE constraint on date.
SqlUniqueViolation(tbl, date) == date \in DOMAIN tbl

\* CreateHealthRecord body: the INSERT statement and LastInsertId.
SqlInsert(p) ==
    /\ SqlFrame
    /\ pc[p] = "insert"
    /\ IF ctxDone[p]
         THEN SqlBodyFails(p, "ctx")
         ELSE \/ SqlBodyFails(p, "stmt")
              \/ /\ writer \in {"none", p}
                 /\ IF SqlUniqueViolation(table, call[p].date)
                      THEN SqlBodyFails(p, "unique")
                      ELSE \E now \in NowValues(clock) :
                             LET row == [ID |-> SqlNextID(seq),
                                         Date |-> call[p].date,
                                         StepCount |-> call[p].steps,
                                         CreatedAt |-> now,
                                         UpdatedAt |-> now]
                             IN /\ clock' = now
                                /\ txw' = [txw EXCEPT ![p] = [kind |-> "insert", row |-> row]]
                                /\ writer' = p
                                /\ pc' = [pc EXCEPT ![p] = "recheck"]
                                /\ UNCHANGED <<table, seq, call, ctxDone, res, readers, last>>

\* A model where the probe never misses (the UPDATE/DELETE then matches no row).
SqlProbeAlwaysFinds(tbl, date) == TRUE

\* "SELECT 1 FROM health_records WHERE date = ?" scanned into exists:
\* Scan returns sql.ErrNoRows when no row matches.
SqlProbeFinds(tbl, date) == date \in DOMAIN tbl

\* UpdateHealthRecord / DeleteHealthRecord body, first statement.
SqlProbe(p) ==
    /\ SqlFrame
    /\ pc[p] = "probe"
    /\ IF ctxDone[p]
         THEN SqlBodyFails(p, "ctx")
         ELSE IF ~SqlProbeFinds(table, call[p].date)
                THEN SqlBodyFails(p, "notfound")
                ELSE /\ readers' = readers \cup {p}
                     /\ pc' = [pc EXCEPT ![p] = "write"]
                     /\ UNCHANGED <<clock, table, seq, call, ctxDone, txw, res, writer, last>>

\* UpdateHealthRecord / DeleteHealthRecord body, second statement.
SqlWrite(p) ==
    /\ SqlFrame
    /\ pc[p] = "write"
    /\ IF ctxDone[p]
         THEN SqlBodyFails(p, "ctx")
         ELSE \/ SqlBodyFails(p, "stmt")
              \/ /\ writer \in {"none", p}
                 /\ writer' = p
                 /\ pc' = [pc EXCEPT ![p] = "recheck"]
                 /\ UNCHANGED <<table, seq, call, ctxDone, res, readers, last>>
                 /\ IF call[p].op = "update"
                      THEN \E now \in NowValues(clock) :
                             /\ clock' = now
                             /\ txw' = [txw EXCEPT ![p] =
                                           [kind |-> "update", date |-> call[p].date,
                                            steps |-> call[p].steps, now |-> now]]
                      ELSE /\ clock' = clock
                           /\ txw' = [txw EXCEPT ![p] =
                                         [kind |-> "delete", date |-> call[p].date]]

\* A re-check that lets a done context through.
SqlContextDoneIgnored(p) == FALSE

\* withTxContext: select { case <-ctx.Done(): ... default: ... }
SqlContextDone(p) == ctxDone[p]

SqlRecheck(p) ==
    /\ SqlFrame
    /\ pc[p] = "recheck"
    /\ IF SqlContextDone(p)
         THEN /\ SqlTxEnd(p)
              /\ SqlReturn(p, "ctx", NoRow)
              /\ UNCHANGED <<clock, table, seq, last>>
         ELSE /\ pc' = [pc EXCEPT ![p] = "commit"]
              /\ UNCHANGED <<clock, table, seq, call, ctxDone, txw, res, writer, readers, last>>

\* A commit that loses a DELETE.
SqlApplyLosesDelete(tbl, w) ==
    IF w.kind = "insert" THEN MapPut(tbl, w.row.Date, w.row)
    ELSE IF w.kind = "update" /\ w.date \in DOMAIN tbl
      THEN [tbl EXCEPT ![w.date].StepCount = w.steps, ![w.date].UpdatedAt = w.now]
    ELSE tbl

\* The rows after the write w of a transaction is committed.
SqlApply(tbl, w) ==
    IF w.kind = "insert" THEN MapPut(tbl, w.row.Date, w.row)
    ELSE IF w.kind = "update" /\ w.date \in DOMAIN tbl
      THEN [tbl EXCEPT ![w.date].StepCount = w.steps, ![w.date].UpdatedAt = w.now]
    ELSE IF w.kind = "delete" THEN MapDelete(tbl, w.date)
    ELSE tbl

\* A failed commit that leaves its write behind.
SqlAfterFailedCommitKeepsWrite(tbl, w) == SqlApply(tbl, w)

\* The rows after tx.Commit() returned an error: the engine rolled back.
SqlAfterFailedCommit(tbl, w) == tbl

\* A commit that does not wait for the readers.
SqlCommitNeverWaits(p) == FALSE

\* Whether tx.Commit() of p has to wait: the engine lets a writer commit only
\* when no other transaction still holds the read lock it took for a SELECT.
SqlCommitWaits(p) == readers \ {p} # {}

\* tx.Commit()
SqlCommit(p) ==
    /\ SqlFrame
    /\ pc[p] = "commit"
    /\ SqlTxEnd(p)
    /\ UNCHANGED clock
    /\ \/ /\ table' = SqlAfterFailedCommit(table, txw[p])
          /\ SqlReturn(p, "commit", NoRow)
          /\ UNCHANGED <<seq, last>>
       \/ /\ ~SqlCommitWaits(p)
          /\ table' = SqlApply(table, txw[p])
          /\ seq' = IF txw[p].kind = "insert" THEN txw[p].row.ID ELSE seq
          /\ last' = IF call[p].op = "delete" THEN MapDelete(last, call[p].date)
                      ELSE MapPut(last, call[p].date, call[p].steps)
          /\ SqlReturn(p, "nil", IF txw[p].kind = "insert" THEN txw[p].row ELSE NoRow)

\* ReadHealthRecord: one SELECT outside any transaction, run on the prepared
\* statement getStmt returned; a statement that was closed since refuses
\* ("sql: statement is closed").
SqlReadHealthRecord(p) ==
    /\ SqlFrame
    /\ pc[p] = "read"
    /\ UNCHANGED <<clock, table, seq, txw, writer, readers, last>>
    /\ IF Stmts["select_health_record"] # "open"
         THEN SqlReturn(p, "stmtclosed", NoRow)
       ELSE IF ctxDone[p]
         THEN SqlReturn(p, "ctx", NoRow)
       ELSE IF call[p].date \in DOMAIN table
         THEN SqlReturn(p, "nil", table[call[p].date])
       ELSE SqlReturn(p, "nil", NoRow)

\* Error values.  An error is the sequence of its messages from the outermost
\* wrapper to the innermost cause; the cause of a failure of the engine is
\* the engine's own error value.
EngineUniqueViolation == "UNIQUE constraint failed: health_records.date"

EngineFailure == "engine failure"

ContextError == "context canceled"

\* sql.ErrNoRows, which Scan returns when the probe matches no row.
ErrNoRows == "sql: no rows in result set"

\* fmt.Errorf("msg: %w", cause)
Errorf(msg, cause) == <<msg>> \o cause

\* The innermost error of a failure of kind err.
SqlCause(err) ==
    IF err = "unique" THEN <<EngineUniqueViolation>>
    ELSE IF err = "ctx" THEN <<ContextError>>
    ELSE IF err = "notfound" THEN <<ErrNoRows>>
    ELSE <<EngineFailure>>

\* The error value CreateHealthRecord returns when it fails with kind err at
\* position at of withTxContext; rbFailed says whether tx.Rollback() failed
\* after the body did.
SqlCreateError(at, err, rbFailed) ==
    IF at = "begin" THEN Errorf("begin transactin", SqlCause(err))
    ELSE IF at = "insert"
      THEN IF rbFailed
             THEN Errorf("rollback failed", Errorf("insert record", SqlCause(err)))
             ELSE Errorf("insert record", SqlCause(err))
    ELSE IF at = "recheck" THEN SqlCause("ctx")
    ELSE Errorf("commit transaction", SqlCause(err))

\* errors.Is(err, target) for a target that is an error value: target is err
\* or one of the errors err wraps.
ErrorsIs(err, target) == \E i \in 1..Len(err) : SubSeq(err, i, Len(err)) = target

\* The error the body of op returns when its statement at position at fails
\* with kind err: the statement's error wrapped with %w.
SqlBodyError(op, at, err) ==
    IF at = "insert" THEN Errorf("insert record", SqlCause(err))
    ELSE IF at = "probe" THEN Errorf("check existence", SqlCause(err))
    ELSE IF op = "update" THEN Errorf("execute update", SqlCause(err))
    ELSE Errorf("execute delete", SqlCause(err))

\* A wrapper that formats the body's error with %v: the chain is lost.
SqlBodyErrorReturnedFlat(e, rbFailed) == IF rbFailed THEN <<"rollback failed">> ELSE e

\* What withTxContext returns after the body returned e: e itself, or, when
\* tx.Rollback() failed, "rollback failed: %v (original error: %w)" with e
\* as the wrapped error.
SqlBodyErrorReturned(e, rbFailed) == IF rbFailed THEN Errorf("rollback failed", e) ELSE e

\* The failures of CreateHealthRecord other than the duplicate: where they
\* arise and of what kind they are.
SqlOtherCreateFailures ==
    {<<"begin", "ctx">>, <<"begin", "begin">>, <<"insert", "ctx">>, <<"insert", "stmt">>,
     <<"recheck", "ctx">>, <<"commit", "commit">>}

SqlNext ==
    \/ \E p \in Procs : \E op \in {"create", "update"} : \E d \in SqlTimes :
          \E s \in StepValues : \E done \in BOOLEAN : SqlCall(p, op, d, s, done)
    \/ \E p \in Procs : \E d \in SqlTimes : \E done \in BOOLEAN :
          SqlCall(p, "delete", d, 0, done)
    \/ \E p \in Procs : \E op \in {"create", "update"} : SqlCallNil(p, op)
    \/ \E p \in Procs : SqlBodyPanics(p)
    \/ \E p \in Procs : \E d \in SqlTimes \cup {SiblingTime} : SqlCallRead(p, d)
    \/ \E p \in Procs : SqlCancel(p)
    \/ \E p \in Procs : SqlInsert(p)
    \/ \E p \in Procs : SqlProbe(p)
    \/ \E p \in Procs : SqlWrite(p)
    \/ \E p \in Procs : SqlRecheck(p)
    \/ \E p \in Procs : SqlCommit(p)
    \/ \E p \in Procs : SqlReadHealthRecord(p)

\* ------------------------------------------------------------------------
\* PostgresDB (client-server backend, internal/database/postgres.go)
\* ------------------------------------------------------------------------
PoolSize == 2

PgTimes == {MkTime(<<2024, 7, 1>>, 0)}

PgSiblingTime == MkTime(<<2024, 7, 2>>, 0)

\* No operation running; now is the value of time.Now() the operation read.
PgNoCall == [op |-> "none", date |-> ZeroTime, steps |-> 0, now |-> 0]

PgSiblingRow ==
    [ID |-> 1, Date |-> PgSiblingTime, StepCount |-> 1, CreatedAt |-> 0, UpdatedAt |-> 0]

\* NewPostgresDBWithConfig on a server whose table holds the sibling record:
\* the pool is open and idle.
NewPostgresDB ==
    /\ pgTable = MapPut(EmptyMap, PgSiblingTime, PgSiblingRow)
    /\ pgSeq = PgSiblingRow.ID
    /\ pgPc = [p \in Procs |-> "idle"]
    /\ pgCall = [p \in Procs |-> PgNoCall]
    /\ pgCtxDone = [p \in Procs |-> FALSE]
    /\ pgTx = [p \in Procs |-> NoWrite]
    /\ pgRes = [p \in Procs |-> NoResult]
    /\ pgLock = "none"
    /\ pgHeld = 0

PgReturn(p, err, rec) ==
    /\ pgPc' = [pgPc EXCEPT ![p] = "idle"]
    /\ pgCall' = [pgCall EXCEPT ![p] = PgNoCall]
    /\ pgCtxDone' = [pgCtxDone EXCEPT ![p] = FALSE]
    /\ pgRes' = [pgRes EXCEPT ![p] = [err |-> err, rec |-> rec]]

\* tx.Rollback or tx.Commit: the transaction ends, its row lock goes and the
\* connection returns to the pool.
PgTxEnd(p) ==
    /\ pgTx' = [pgTx EXCEPT ![p] = NoWrite]
    /\ pgLock' = IF pgLock = p THEN "none" ELSE pgLock
    /\ pgHeld' = pgHeld - 1

\* A return with the variable err set: the deferred function rolls back.
PgFailsRolledBack(p, err) ==
    /\ PgTxEnd(p)
    /\ PgReturn(p, err, NoRow)
    /\ UNCHANGED <<clock, pgTable, pgSeq>>

\* The largest value of the column type INTEGER.
MaxInt32 == 2147483647

\* step_count INTEGER NOT NULL CHECK (step_count >= 0): whether the server
\* takes the value for a row it writes.
PgStepCountAccepted(steps) ==
    /\ steps >= -MaxInt32 - 1
    /\ steps <= MaxInt32
    /\ steps >= 0

\* A caller enters CreateHealthRecord, UpdateHealthRecord or
\* DeleteHealthRecord with a live context (PgCancel may end it at any later
\* moment, also before the first statement).  CreateHealthRecord reads
\* time.Now() before it hands its statement to the pool.
PgCall(p, op, date, steps) ==
    /\ PgFrame
    /\ pgPc[p] = "idle"
    /\ op = "create" => pgSeq < MaxSeq
    /\ \E now \in IF op = "create" THEN NowValues(clock) ELSE {clock} :
          /\ clock' = now
          /\ pgCall' = [pgCall EXCEPT ![p] =
                          [op |-> op, date |-> date, steps |-> steps, now |-> now]]
    /\ pgPc' = [pgPc EXCEPT ![p] = IF op = "create" THEN "insert" ELSE "begin"]
    /\ pgRes' = [pgRes EXCEPT ![p] = NoResult]
    /\ UNCHANGED <<pgTable, pgSeq, pgCtxDone, pgTx, pgLock, pgHeld>>

\* A wait that does not look at the context.
PgWaitNeverEnds(p) == FALSE

\* Whether waiting for a pool connection or for a row lock ends when the
\* caller's context is done (pgx hands ctx to Acquire and to the statement).
PgWaitEnds(p) == pgCtxDone[p]

\* CreateHealthRecord: one INSERT ... RETURNING on a pool connection, which
\* is taken for the statement and given back after it.  The statement waits
\* while no connection is free or another transaction holds the lock on the
\* row of the date; nextval is consumed also when the UNIQUE constraint
\* rejects the row.
PgCreateHealthRecord(p) ==
    /\ PgFrame
    /\ pgPc[p] = "insert"
    /\ UNCHANGED <<pgTx, pgLock, pgHeld>>
    /\ IF PgWaitEnds(p)
         THEN /\ PgReturn(p, "ctx", NoRow)
              /\ UNCHANGED <<clock, pgTable, pgSeq>>
         ELSE /\ pgHeld < PoolSize
              /\ pgLock = "none"
              /\ \/ /\ PgReturn(p, "stmt", NoRow)
                    /\ UNCHANGED <<clock, pgTable, pgSeq>>
                 \/ IF ~PgStepCountAccepted(pgCall[p].steps)
                      THEN /\ PgReturn(p, "constraint", NoRow)
                           /\ pgSeq' = pgSeq + 1
                           /\ UNCHANGED <<clock, pgTable>>
                    ELSE IF pgCall[p].date \in DOMAIN pgTable
                      THEN /\ PgReturn(p, "unique", NoRow)
                           /\ pgSeq' = pgSeq + 1
                           /\ UNCHANGED <<clock, pgTable>>
                      ELSE LET row == [ID |-> pgSeq + 1,
                                       Date |-> pgCall[p].date,
                                       StepCount |-> pgCall[p].steps,
                                       CreatedAt |-> pgCall[p].now,
                                       UpdatedAt |-> pgCall[p].now]
                           IN /\ pgTable' = MapPut(pgTable, pgCall[p].date, row)
                              /\ pgSeq' = pgSeq + 1
                              /\ PgReturn(p, "nil", row)
                              /\ UNCHANGED clock

\* UpdateHealthRecord / DeleteHealthRecord: db.pool.Begin(ctx) takes a
\* connection from the pool (waiting while none is free) and opens a tx.
PgBegin(p) ==
    /\ PgFrame
    /\ pgPc[p] = "begin"
    /\ UNCHANGED <<clock, pgTable, pgSeq, pgTx, pgLock>>
    /\ IF PgWaitEnds(p)
         THEN /\ PgReturn(p, "ctx", NoRow)
              /\ UNCHANGED pgHeld
         ELSE /\ pgHeld < PoolSize
              /\ \/ /\ PgReturn(p, "begin", NoRow)
                    /\ UNCHANGED pgHeld
                 \/ /\ pgPc' = [pgPc EXCEPT ![p] = "check"]
                    /\ pgHeld' = pgHeld + 1
                    /\ UNCHANGED <<pgCall, pgCtxDone, pgRes>>

\* The caller's context is cancelled or reaches its deadline.
PgCancel(p) ==
    /\ PgFrame
    /\ pgPc[p] # "idle"
    /\ ~pgCtxDone[p]
    /\ pgCtxDone' = [pgCtxDone EXCEPT ![p] = TRUE]
    /\ UNCHANGED <<clock, pgTable, pgSeq, pgPc, pgCall, pgTx, pgRes, pgLock, pgHeld>>

\* "SELECT EXISTS(SELECT 1 FROM health_records WHERE date = $1)": under READ
\* COMMITTED the statement sees the rows committed when it runs; when the
\* record exists UpdateHealthRecord goes on to read time.Now().  When the
\* record is missing the function returns a new error while the variable err
\* is nil, so the deferred function does not roll back: the transaction stays
\* open and the connection stays out of the pool.
PgCheck(p) ==
    /\ PgFrame
    /\ pgPc[p] = "check"
    /\ IF pgCtxDone[p]
         THEN PgFailsRolledBack(p, "ctx")
         ELSE \/ PgFailsRolledBack(p, "check")
              \/ IF pgCall[p].date \notin DOMAIN pgTable
                   THEN /\ PgReturn(p, "notfound", NoRow)
                        /\ UNCHANGED <<clock, pgTable, pgSeq, pgTx, pgLock, pgHeld>>
                   ELSE /\ pgPc' = [pgPc EXCEPT ![p] = "exec"]
                        /\ \E now \in IF pgCall[p].op = "update"
                                         THEN NowValues(clock) ELSE {clock} :
                              /\ clock' = now
                              /\ pgCall' = [pgCall EXCEPT ![p].now = now]
                        /\ UNCHANGED <<pgTable, pgSeq, pgCtxDone, pgTx, pgRes, pgLock, pgHeld>>

\* tx.Exec of the UPDATE or DELETE.  The statement waits for the row lock of
\* another transaction, then acts on the rows committed at that moment: none
\* when the row is gone (the command tag, which says so, is dropped).
PgExec(p) ==
    /\ PgFrame
    /\ pgPc[p] = "exec"
    /\ IF PgWaitEnds(p)
         THEN PgFailsRolledBack(p, "ctx")
         ELSE \/ PgFailsRolledBack(p, "stmt")
              \/ /\ pgLock \in {"none", p}
                 /\ IF /\ pgCall[p].date \in DOMAIN pgTable
                       /\ pgCall[p].op = "update"
                       /\ ~PgStepCountAccepted(pgCall[p].steps)
                      THEN PgFailsRolledBack(p, "constraint")
                      ELSE /\ pgPc' = [pgPc EXCEPT ![p] = "commit"]
                           /\ UNCHANGED <<clock, pgTable, pgSeq, pgCall, pgCtxDone, pgRes,
                                          pgHeld>>
                           /\ IF pgCall[p].date \notin DOMAIN pgTable
                                THEN UNCHANGED <<pgTx, pgLock>>
                                ELSE /\ pgLock' = p
                                     /\ pgTx' = [pgTx EXCEPT ![p] =
                                                   IF pgCall[p].op = "update"
                                                     THEN [kind |-> "update",
                                                           date |-> pgCall[p].date,
                                                           steps |-> pgCall[p].steps,
                                                           now |-> pgCall[p].now]
                                                     ELSE [kind |-> "delete",
                                                           date |-> pgCall[p].date]]

\* tx.Commit(ctx); when it fails the deferred function rolls back.
PgCommit(p) ==
    /\ PgFrame
    /\ pgPc[p] = "commit"
    /\ IF pgCtxDone[p]
         THEN PgFailsRolledBack(p, "ctx")
         ELSE \/ PgFailsRolledBack(p, "commit")
              \/ /\ PgTxEnd(p)
                 /\ pgTable' = SqlApply(pgTable, pgTx[p])
                 /\ PgReturn(p, "nil", NoRow)
                 /\ UNCHANGED <<clock, pgSeq>>

\* ------------------------------------------------------------------------
\* PostgresDB, single-statement variant (statements through db.pool.Exec)
\* ------------------------------------------------------------------------

\* A caller enters the single-statement UpdateHealthRecord, which reads
\* time.Now() before it hands its statement to the pool.
PgxPoolCall(p, op, date, steps) ==
    /\ PgFrame
    /\ pgPc[p] = "idle"
    /\ \E now \in NowValues(clock) :
          /\ clock' = now
          /\ pgCall' = [pgCall EXCEPT ![p] =
                          [op |-> op, date |-> date, steps |-> steps, now |-> now]]
    /\ pgPc' = [pgPc EXCEPT ![p] = "stmt"]
    /\ pgRes' = [pgRes EXCEPT ![p] = NoResult]
    /\ UNCHANGED <<pgTable, pgSeq, pgCtxDone, pgTx, pgLock, pgHeld>>

\* A command tag that always reports no row.
PgRowsAffectedNone(tbl, date) == 0

\* tag.RowsAffected() of an UPDATE or DELETE ... WHERE date = $n.
PgRowsAffected(tbl, date) == IF date \in DOMAIN tbl THEN 1 ELSE 0

\* UpdateHealthRecord: one UPDATE in its own implicit transaction on a pool
\* connection; it waits for a free connection and for the row lock, and a
\* command tag of 0 rows is the not-found error.
PgxPoolUpdateHealthRecord(p) ==
    /\ PgFrame
    /\ pgPc[p] = "stmt"
    /\ pgCall[p].op = "update"
    /\ UNCHANGED <<pgSeq, pgTx, pgLock, pgHeld>>
    /\ IF PgWaitEnds(p)
         THEN /\ PgReturn(p, "ctx", NoRow)
              /\ UNCHANGED <<clock, pgTable>>
         ELSE /\ pgHeld < PoolSize
              /\ pgLock = "none"
              /\ \/ /\ PgReturn(p, "stmt", NoRow)
                    /\ UNCHANGED <<clock, pgTable>>
                 \/ IF PgRowsAffected(pgTable, pgCall[p].date) = 0
                      THEN /\ PgReturn(p, "notfound", NoRow)
                           /\ UNCHANGED <<clock, pgTable>>
                    ELSE IF ~PgStepCountAccepted(pgCall[p].steps)
                      THEN /\ PgReturn(p, "constraint", NoRow)
                           /\ UNCHANGED <<clock, pgTable>>
                      ELSE /\ pgTable' = [pgTable EXCEPT
                                            ![pgCall[p].date].StepCount = pgCall[p].steps,
                                            ![pgCall[p].date].UpdatedAt = pgCall[p].now]
                           /\ PgReturn(p, "nil", NoRow)
                           /\ UNCHANGED clock

\* DeleteHealthRecord: one DELETE through db.pool.Exec; a command tag of 0
\* rows is the not-found error.
PgxPoolDeleteHealthRecord(p) ==
    /\ PgFrame
    /\ pgPc[p] = "stmt"
    /\ pgCall[p].op = "delete"
    /\ UNCHANGED <<clock, pgSeq, pgTx, pgLock, pgHeld>>
    /\ IF PgWaitEnds(p)
         THEN /\ PgReturn(p, "ctx", NoRow)
              /\ UNCHANGED pgTable
         ELSE /\ pgHeld < PoolSize
              /\ pgLock = "none"
              /\ \/ /\ PgReturn(p, "stmt", NoRow)
                    /\ UNCHANGED pgTable
                 \/ IF PgRowsAffected(pgTable, pgCall[p].date) = 0
                      THEN /\ PgReturn(p, "notfound", NoRow)
                           /\ UNCHANGED pgTable
                      ELSE /\ pgTable' = MapDelete(pgTable, pgCall[p].date)
                           /\ PgReturn(p, "nil", NoRow)

\* The error of the driver behind a failure of kind err.
PgCause(err) == IF err = "ctx" THEN <<ContextError>> ELSE <<EngineFailure>>

\* The error value the single-statement UpdateHealthRecord or
\* DeleteHealthRecord returns for a failure of kind err: a new error for
\* "record not found for date: %v", the driver's error wrapped otherwise.
PgxPoolError(op, err) ==
    IF err = "notfound" THEN <<"record not found for date">>
    ELSE IF op = "update" THEN Errorf("failed to update health record", PgCause(err))
    ELSE Errorf("failed to delete health record", PgCause(err))

PgxPoolNext ==
    \/ \E p \in Procs : \E d \in PgTimes : \E s \in StepValues : PgCall(p, "create", d, s)
    \/ \E p \in Procs : \E d \in PgTimes : \E s \in StepValues : PgxPoolCall(p, "update", d, s)
    \/ \E p \in Procs : \E d \in PgTimes : PgxPoolCall(p, "delete", d, 0)
    \/ \E p \in Procs : PgCancel(p)
    \/ \E p \in Procs : PgCreateHealthRecord(p)
    \/ \E p \in Procs : PgxPoolUpdateHealthRecord(p)
    \/ \E p \in Procs : PgxPoolDeleteHealthRecord(p)

PgNext ==
    \/ \E p \in Procs : \E op \in {"create", "update"} : \E d \in PgTimes :
          \E s \in StepValues : PgCall(p, op, d, s)
    \/ \E p \in Procs : \E d \in PgTimes : PgCall(p, "delete", d, 0)
    \/ \E p \in Procs : PgCancel(p)
    \/ \E p \in Procs : PgCreateHealthRecord(p)
    \/ \E p \in Procs : PgBegin(p)
    \/ \E p \in Procs : PgCheck(p)
    \/ \E p \in Procs : PgExec(p)
    \/ \E p \in Procs : PgCommit(p)

\* ------------------------------------------------------------------------
\* ReadHealthRecordsByYear / ReadHealthRecordsByYearMonth
\* ------------------------------------------------------------------------
CalDays ==
    {<<2023, 12, 31>>, <<2024, 1, 1>>, <<2024, 1, 31>>, <<2024, 2, 1>>,
     <<2024, 12, 31>>, <<2025, 1, 1>>}

QueryYears == {2023, 2024, 2025}

QueryMonths == 1..12

\* time.Date(year, month, 1, 0, 0, 0, 0, time.UTC): a month outside 1..12 is
\* carried into the year.
GoDate(year, month) ==
    MkTime(<<year + ((month - 1) \div 12), ((month - 1) % 12) + 1, 1>>, 0)

\* t.AddDate(years, months, 0) of the first day of a month.
AddDate(t, years, months) == GoDate(Year(t) + years, Month(t) + months)

\* The rows of a set of rows in ascending order of date (sort.Slice with
\* Before in the test double, ORDER BY date in the backends).
RECURSIVE SortedByDate(_)
SortedByDate(rows) ==
    IF rows = {} THEN <<>>
    ELSE LET first == CHOOSE r \in rows : \A o \in rows : ~Before(o.Date, r.Date)
         IN <<first>> \o SortedByDate(rows \ {first})

RowsOf(store) == {store[k] : k \in DOMAIN store}

\* A range whose end is taken inclusive.
InRangeInclusive(date, startDate, endDate) ==
    ~Before(date, startDate) /\ ~Before(endDate, date)

\* WHERE date >= ? AND date < ?
InRange(date, startDate, endDate) ==
    ~Before(date, startDate) /\ Before(date, endDate)

\* readHealthRecordsByRange of both backends.
readHealthRecordsByRange(store, startDate, endDate) ==
    SortedByDate({r \in RowsOf(store) : InRange(r.Date, startDate, endDate)})

RangeAnswer(backend, kind, year, month, err, list) ==
    rq' = [backend |-> backend, kind |-> kind, year |-> year, month |-> month,
           err |-> err, list |-> list]

RangeFrame == UNCHANGED <<clock, mockVars, sqlVars, pgVars, handleVars, callerVars, newRet>>

SqlReadHealthRecordsByYear(year) ==
    /\ RangeFrame
    /\ LET startDate == GoDate(year, 1)
           endDate == AddDate(startDate, 1, 0)
       IN RangeAnswer("sqlite", "year", year, 0, "nil",
                      readHealthRecordsByRange(table, startDate, endDate))

SqlReadHealthRecordsByYearMonth(year, month) ==
    /\ RangeFrame
    /\ LET startDate == GoDate(year, month)
           endDate == AddDate(startDate, 0, 1)
       IN RangeAnswer("sqlite", "month", year, month, "nil",
                      readHealthRecordsByRange(table, startDate, endDate))

PgReadHealthRecordsByYear(year) ==
    /\ RangeFrame
    /\ LET startDate == GoDate(year, 1)
           endDate == AddDate(startDate, 1, 0)
       IN RangeAnswer("postgres", "year", year, 0, "nil",
                      readHealthRecordsByRange(pgTable, startDate, endDate))

PgReadHealthRecordsByYearMonth(year, month) ==
    /\ RangeFrame
    /\ LET startDate == GoDate(year, month)
           endDate == AddDate(startDate, 0, 1)
       IN RangeAnswer("postgres", "month", year, month, "nil",
                      readHealthRecordsByRange(pgTable, startDate, endDate))

MockReadHealthRecordsByYear(year) ==
    /\ RangeFrame
    /\ IF checkContext # "nil"
         THEN RangeAnswer("mock", "year", year, 0, checkContext, <<>>)
       ELSE IF DOMAIN records = {}
         THEN RangeAnswer("mock", "year", year, 0, "nil", <<>>)
       ELSE RangeAnswer("mock", "year", year, 0, "nil",
                          SortedByDate({r \in RowsOf(records) : Year(r.Date) = year}))

MockReadHealthRecordsByYearMonth(year, month) ==
    /\ RangeFrame
    /\ IF checkContext # "nil"
         THEN RangeAnswer("mock", "month", year, month, checkContext, <<>>)
       ELSE IF DOMAIN records = {}
         THEN RangeAnswer("mock", "month", year, month, "nil", <<>>)
       ELSE RangeAnswer("mock", "month", year, month, "nil",
                          SortedByDate({r \in RowsOf(records) :
                                          Year(r.Date) = year /\ Month(r.Date) = month}))

RangeNext ==
    \/ \E y \in QueryYears : SqlReadHealthRecordsByYear(y)
    \/ \E y \in QueryYears : \E m \in QueryMonths : SqlReadHealthRecordsByYearMonth(y, m)
    \/ \E y \in QueryYears : PgReadHealthRecordsByYear(y)
    \/ \E y \in QueryYears : \E m \in QueryMonths : PgReadHealthRecordsByYearMonth(y, m)
    \/ \E y \in QueryYears : MockReadHealthRecordsByYear(y)
    \/ \E y \in QueryYears : \E m \in QueryMonths : MockReadHealthRecordsByYearMonth(y, m)

\* The store after records were created, in order of date, for the days of S.
StoreOf(S) ==
    [t \in {MkTime(d, 0) : d \in S} |->
        [ID |-> Cardinality({o \in S : DayLess(o, t.day)}) + 1,
         Date |-> t, StepCount |-> 1, CreatedAt |-> 0, UpdatedAt |-> 0]]

\* ------------------------------------------------------------------------
\* Handles: opening and closing the backends
\* ------------------------------------------------------------------------
StmtNames ==
    {"insert_health_record", "select_health_record", "select_range_health_record",
     "update_health_record", "delete_health_record"}

NoClose == [backend |-> "none", err |-> "none"]

\* A backend value as its constructor returns it: the handle is open and
\* prepareStatements has filled Stmts.
OpenedHandles ==
    /\ sqlDB = "open"
    /\ Stmts = [n \in StmtNames |-> "open"]
    /\ pool = "open"
    /\ closeRet = NoClose
    /\ newRet = [sqlite |-> "nil", postgres |-> "nil"]

CloseAnswer(backend, err) == closeRet' = [backend |-> backend, err |-> err]

CloseFrame == UNCHANGED <<clock, mockVars, sqlVars, pgVars, rq, callerVars, newRet>>

\* db.DB.Close() when the embedded *sql.DB is nil: (*sql.DB).Close locks
\* db.mu through the nil receiver, a nil pointer dereference.
NilHandleClose == "panic"

\* SQLiteDB.Close, under db.Mu: stmt.Close() for the statements of the map in
\* the order the map iteration yields them (closing a closed statement
\* returns nil), returning at the first failure; then db.DB.Close(), which
\* returns nil on a handle that is closed already.
SQLiteDBClose ==
    /\ CloseFrame
    /\ UNCHANGED pool
    /\ IF sqlDB = "nil"
         THEN /\ CloseAnswer("sqlite", NilHandleClose)
              /\ UNCHANGED <<sqlDB, Stmts>>
         ELSE \/ \E n \in {x \in DOMAIN Stmts : Stmts[x] = "open"} :
                    \E S \in SUBSET (DOMAIN Stmts \ {n}) :
                       /\ Stmts' = [x \in DOMAIN Stmts |-> IF x \in S THEN "closed" ELSE Stmts[x]]
                       /\ CloseAnswer("sqlite", "stmtclose")
                       /\ UNCHANGED sqlDB
              \/ /\ Stmts' = [x \in DOMAIN Stmts |-> "closed"]
                 /\ sqlDB' = "closed"
                 /\ \/ CloseAnswer("sqlite", "nil")
                    \/ sqlDB = "open" /\ CloseAnswer("sqlite", "dbclose")

\* PostgresDB.Close: pool.Close() unless the pool is nil; pgxpool closes once
\* and waits until every acquired connection is back.
PostgresDBClose ==
    /\ CloseFrame
    /\ UNCHANGED <<sqlDB, Stmts>>
    /\ pool = "open" => pgHeld = 0
    /\ pool' = IF pool = "nil" THEN "nil" ELSE "closed"
    /\ CloseAnswer("postgres", "nil")

CloseNext ==
    \/ SQLiteDBClose
    \/ PostgresDBClose

\* ------------------------------------------------------------------------
\* The constructors
\* ------------------------------------------------------------------------
NewFrame == UNCHANGED <<clock, mockVars, sqlVars, pgVars, rq, callerVars, closeRet>>

NewAnswer(backend, err) == newRet' = [newRet EXCEPT ![backend] = err]

\* NewSQLiteDB: sql.Open, Ping, CreateTable, prepareStatements, and what is
\* open when it returns.  A failure of Open leaves no handle; after that
\* every return of an error is a plain return: nothing is closed.
\* prepareStatements returns at the first Prepare that fails, with the
\* statements of the map iteration before it prepared.
NewSQLiteDBCall ==
    /\ NewFrame
    /\ UNCHANGED pool
    /\ newRet.sqlite = "none"
    /\ \/ /\ NewAnswer("sqlite", "open")
          /\ UNCHANGED <<sqlDB, Stmts>>
       \/ /\ sqlDB' = "open"
          /\ UNCHANGED Stmts
          /\ \/ NewAnswer("sqlite", "ping")
             \/ NewAnswer("sqlite", "creating table")
       \/ \E S \in (SUBSET StmtNames) \ {StmtNames} :
             /\ sqlDB' = "open"
             /\ Stmts' = [n \in S |-> "open"]
             /\ NewAnswer("sqlite", "preparing statements")
       \/ /\ sqlDB' = "open"
          /\ Stmts' = [n \in StmtNames |-> "open"]
          /\ NewAnswer("sqlite", "nil")

\* NewPostgresDBWithConfig: pgxpool.NewWithConfig, Ping, createTable; the
\* pool is closed before the error of Ping or createTable is returned.
NewPostgresDBWithConfig ==
    /\ NewFrame
    /\ UNCHANGED <<sqlDB, Stmts>>
    /\ newRet.postgres = "none"
    /\ \/ /\ NewAnswer("postgres", "failed to create postgres pool")
          /\ UNCHANGED pool
       \/ /\ pool' = "closed"
          /\ \/ NewAnswer("postgres", "failed to ping postgres")
             \/ NewAnswer("postgres", "failed to create table")
       \/ /\ pool' = "open"
          /\ NewAnswer("postgres", "nil")

\* The constructors, and Close on a backend value a constructor returned.
NewNext ==
    \/ NewSQLiteDBCall
    \/ NewPostgresDBWithConfig
    \/ newRet.sqlite = "nil" /\ SQLiteDBClose
    \/ newRet.postgres = "nil" /\ PostgresDBClose

\* ------------------------------------------------------------------------
\* Specifications
\* ------------------------------------------------------------------------
NoQuery == [kind |-> "none"]

Init ==
    /\ clock = 0
    /\ NewMockDB
    /\ NoCallers
    /\ NewSQLiteDB
    /\ NewPostgresDB
    /\ rq = NoQuery
    /\ OpenedHandles

SpecMock == Init /\ [][MockNext]_vars

SpecSQLite == Init /\ [][SqlNext]_vars

SpecPg == Init /\ [][PgNext]_vars

\* The next statement of the operation of p.  The goroutine of a caller that
\* can run is scheduled eventually, and a statement whose wait the context
\* has ended can run.
PgStep(p) ==
    \/ PgCreateHealthRecord(p)
    \/ PgBegin(p)
    \/ PgCheck(p)
    \/ PgExec(p)
    \/ PgCommit(p)

SpecPgFair == Init /\ [][PgNext]_vars /\ \A p \in Procs : WF_vars(PgStep(p))

\* Step counts at the edges of what the column takes.
PgStepInputs == {-1, 0, MaxInt32}

PgStepsNext ==
    \/ \E p \in Procs : \E op \in {"create", "update"} : \E d \in PgTimes :
          \E s \in PgStepInputs : PgCall(p, op, d, s)
    \/ \E p \in Procs : \E d \in PgTimes : PgCall(p, "delete", d, 0)
    \/ \E p \in Procs : PgCancel(p)
    \/ \E p \in Procs : PgCreateHealthRecord(p)
    \/ \E p \in Procs : PgBegin(p)
    \/ \E p \in Procs : PgCheck(p)
    \/ \E p \in Procs : PgExec(p)
    \/ \E p \in Procs : PgCommit(p)

SpecPgSteps == Init /\ [][PgStepsNext]_vars

\* The record the concurrent updates work on, created before they start.
PgUpdatedRow ==
    [ID |-> 2, Date |-> CHOOSE t \in PgTimes : TRUE, StepCount |-> 1,
     CreatedAt |-> 0, UpdatedAt |-> 0]

\* The server after one more successful create: callers then only update.
PgUpdatesInit ==
    /\ clock = 0
    /\ NewMockDB
    /\ NoCallers
    /\ NewSQLiteDB
    /\ pgTable = MapPut(MapPut(EmptyMap, PgSiblingTime, PgSiblingRow),
                        PgUpdatedRow.Date, PgUpdatedRow)
    /\ pgSeq = PgUpdatedRow.ID
    /\ pgPc = [p \in Procs |-> "idle"]
    /\ pgCall = [p \in Procs |-> PgNoCall]
    /\ pgCtxDone = [p \in Procs |-> FALSE]
    /\ pgTx = [p \in Procs |-> NoWrite]
    /\ pgRes = [p \in Procs |-> NoResult]
    /\ pgLock = "none"
    /\ pgHeld = 0
    /\ rq = NoQuery
    /\ OpenedHandles

PgUpdatesNext ==
    \/ \E p \in Procs : \E d \in PgTimes : \E s \in StepValues : PgCall(p, "update", d, s)
    \/ \E p \in Procs : \E d \in PgTimes : \E s \in StepValues : PgxPoolCall(p, "update", d, s)
    \/ \E p \in Procs : PgCancel(p)
    \/ \E p \in Procs : PgBegin(p)
    \/ \E p \in Procs : PgCheck(p)
    \/ \E p \in Procs : PgExec(p)
    \/ \E p \in Procs : PgCommit(p)
    \/ \E p \in Procs : PgxPoolUpdateHealthRecord(p)

SpecPgUpdates == PgUpdatesInit /\ [][PgUpdatesNext]_vars

SpecPgxPool == Init /\ [][PgxPoolNext]_vars

\* The dates the rollback tests pass: midnights, and the zero date.
MockFaultTimes == {t \in MockTimes : t.tod = 0}

\* The test double driven by a test that also flips its fault toggles.
MockFaultsNext ==
    \/ \E b \in BOOLEAN : SetSimulateTimeout(b)
    \/ \E b \in BOOLEAN : SetSimulateContextCancel(b)
    \/ \E b \in BOOLEAN : SetSimulateDBError(b)
    \/ \E t \in MockFaultTimes : \E s \in StepValues : MockCreateHealthRecord(t, s)
    \/ \E t \in MockFaultTimes : MockReadHealthRecord(t)
    \/ \E t \in MockFaultTimes : \E s \in StepValues : MockUpdateHealthRecord(t, s)
    \/ \E t \in MockFaultTimes : MockDeleteHealthRecord(t)

SpecMockFaults == Init /\ [][MockFaultsNext]_vars

\* Every contract operation of the test double, on one day, under every
\* setting of the toggles.
ToggleDay == <<2024, 1, 1>>

MockTogglesNext ==
    \/ \E b \in BOOLEAN : SetSimulateTimeout(b)
    \/ \E b \in BOOLEAN : SetSimulateContextCancel(b)
    \/ \E b \in BOOLEAN : SetSimulateDBError(b)
    \/ \E s \in StepValues : MockCreateHealthRecord(MkTime(ToggleDay, 0), s)
    \/ MockReadHealthRecord(MkTime(ToggleDay, 0))
    \/ \E s \in StepValues : MockUpdateHealthRecord(MkTime(ToggleDay, 0), s)
    \/ MockDeleteHealthRecord(MkTime(ToggleDay, 0))
    \/ MockReadHealthRecordsByYear(ToggleDay[1])
    \/ \E m \in {ToggleDay[2], ToggleDay[2] + 1} :
          MockReadHealthRecordsByYearMonth(ToggleDay[1], m)

SpecMockToggles == Init /\ [][MockTogglesNext]_vars

\* ------------------------------------------------------------------------
\* HealthRecordHandler.UpdateHealthRecord over MockDB
\* ------------------------------------------------------------------------
\* validator.Validate (health_rules.go:20-42) for a request the handler
\* parsed: a date, not in the future, and a step count in 0..1000000.
Validate(hrDate, hrSteps) ==
    ~IsZero(hrDate) /\ hrSteps >= 0 /\ hrSteps <= 1000000

HandlerAnswer(date, resp, rec) ==
    [pc |-> "idle", date |-> date, resp |-> resp, rec |-> rec]

\* The handler validates the request and calls UpdateHealthRecord
\* (health_records.go:182-190); an error is answered at once.
HandlerUpdateHealthRecord(hrDate, hrSteps) ==
    /\ hreq.pc = "idle"
    /\ UNCHANGED held
    /\ IF ~Validate(hrDate, hrSteps)
         THEN /\ hreq' = HandlerAnswer(hrDate, "error", NoRow)
              /\ MockStoreFrame
              /\ UNCHANGED <<clock, mockVars>>
         ELSE /\ MockUpdateHealthRecordCall(hrDate, hrSteps)
              /\ hreq' = IF mret'.err # "nil"
                           THEN HandlerAnswer(hrDate, "error", NoRow)
                           ELSE [pc |-> "updated", date |-> hrDate,
                                 resp |-> "none", rec |-> NoRow]

\* The read-back and the answer (health_records.go:193-202): only the error
\* is looked at before *updatedRecord is read, so a nil record with a nil
\* error is a nil pointer dereference, and the request gets no answer.
HandlerReadBack ==
    /\ hreq.pc = "updated"
    /\ UNCHANGED held
    /\ MockReadHealthRecordCall(hreq.date)
    /\ hreq' = IF mret'.err # "nil"
                 THEN HandlerAnswer(hreq.date, "error", NoRow)
               ELSE IF mret'.rec = NoRow
                 THEN HandlerAnswer(hreq.date, "panic", NoRow)
               ELSE HandlerAnswer(hreq.date, "ok", mret'.rec)

\* One update request, with the requests of other clients (create, delete)
\* and a connection fault in between.
HandlerNext ==
    \/ \E t \in MockFaultTimes : \E s \in StepValues : HandlerUpdateHealthRecord(t, s)
    \/ HandlerReadBack
    \/ \E t \in MockFaultTimes : \E s \in StepValues : MockCreateHealthRecord(t, s)
    \/ \E t \in MockFaultTimes : MockDeleteHealthRecord(t)
    \/ \E b \in BOOLEAN : SetSimulateDBError(b)

SpecHandler == Init /\ [][HandlerNext]_vars

\* ------------------------------------------------------------------------
\* MockDB: the records it hands out
\* ------------------------------------------------------------------------
\* CreateHealthRecord returns the pointer it has just stored (db.go:91-99)
\* and ReadHealthRecord the pointer it finds in the map (db.go:113-120):
\* held.alias says that the caller's pointer is the stored object, held.rec
\* is what the caller reads through it.
MockCallerCreates(hrDate, hrSteps) ==
    /\ MockCreateHealthRecordCall(hrDate, hrSteps)
    /\ UNCHANGED hreq
    /\ held' = IF mret'.err = "nil"
                 THEN [alias |-> TRUE, rec |-> records'[normalizeDate(hrDate)]]
                 ELSE held

MockCallerReads(date) ==
    /\ MockReadHealthRecordCall(date)
    /\ UNCHANGED hreq
    /\ held' = IF mret'.err = "nil" /\ mret'.rec # NoRow
                 THEN [alias |-> TRUE, rec |-> mret'.rec]
                 ELSE held

\* UpdateHealthRecord assigns to the fields of the stored object
\* (db.go:200-201): a pointer to that object sees the new values.
MockStoreUpdates(hrDate, hrSteps) ==
    /\ MockUpdateHealthRecordCall(hrDate, hrSteps)
    /\ UNCHANGED hreq
    /\ held' = IF held.alias THEN [held EXCEPT !.rec = records'[held.rec.Date]]
                             ELSE held

\* DeleteHealthRecord removes the map entry (db.go:222); the object lives on
\* for whoever holds a pointer to it.
MockStoreDeletes(date) ==
    /\ MockDeleteHealthRecordCall(date)
    /\ UNCHANGED hreq
    /\ held' = IF held.alias /\ held.rec.Date \notin DOMAIN records'
                 THEN [held EXCEPT !.alias = FALSE]
                 ELSE held

\* The caller assigns to the StepCount of the record it was handed.
MockCallerModifies(steps) ==
    /\ held.rec # NoRow
    /\ held' = [held EXCEPT !.rec.StepCount = steps]
    /\ records' = IF held.alias
                    THEN [records EXCEPT ![held.rec.Date].StepCount = steps]
                    ELSE records
    /\ MockStoreFrame
    /\ UNCHANGED <<clock, simulateTimeout, simulateContextCancel, simulateDBError,
                   mret, hreq>>

MockAliasNext ==
    \/ \E t \in MockFaultTimes : \E s \in StepValues : MockCallerCreates(t, s)
    \/ \E t \in MockFaultTimes : MockCallerReads(t)
    \/ \E t \in MockFaultTimes : \E s \in StepValues : MockStoreUpdates(t, s)
    \/ \E t \in MockFaultTimes : MockStoreDeletes(t)
    \/ \E s \in StepValues : MockCallerModifies(s)

SpecMockAlias == Init /\ [][MockAliasNext]_vars

\* The three implementations hold the same records, for any set of days.
RangeInit ==
    \E S \in SUBSET CalDays :
        /\ clock = 0
        /\ simulateTimeout = FALSE
        /\ simulateContextCancel = FALSE
        /\ simulateDBError = FALSE
        /\ mret = [op |-> "none", date |-> ZeroTime, steps |-> 0, err |-> "nil", rec |-> NoRow]
        /\ NoCallers
        /\ records = StoreOf(S)
        /\ table = StoreOf(S)
        /\ seq = Cardinality(S)
        /\ pc = [p \in Procs |-> "idle"]
        /\ call = [p \in Procs |-> NoCall]
        /\ ctxDone = [p \in Procs |-> FALSE]
        /\ txw = [p \in Procs |-> NoWrite]
        /\ res = [p \in Procs |-> NoResult]
        /\ writer = "none"
        /\ readers = {}
        /\ last = [t \in DOMAIN StoreOf(S) |-> 1]
        /\ pgTable = StoreOf(S)
        /\ pgSeq = Cardinality(S)
        /\ pgPc = [p \in Procs |-> "idle"]
        /\ pgCall = [p \in Procs |-> PgNoCall]
        /\ pgCtxDone = [p \in Procs |-> FALSE]
        /\ pgTx = [p \in Procs |-> NoWrite]
        /\ pgRes = [p \in Procs |-> NoResult]
        /\ pgLock = "none"
        /\ pgHeld = 0
        /\ rq = NoQuery
        /\ OpenedHandles

\* Each backend value is either the one its constructor returned or one that
\* was never opened: &SQLiteDB{} (nil *sql.DB, nil map) and a PostgresDB
\* whose pool is nil.
CloseInit ==
    /\ clock = 0
    /\ NewMockDB
    /\ NoCallers
    /\ NewSQLiteDB
    /\ NewPostgresDB
    /\ rq = NoQuery
    /\ closeRet = NoClose
    /\ newRet = [sqlite |-> "nil", postgres |-> "nil"]
    /\ \/ sqlDB = "open" /\ Stmts = [n \in StmtNames |-> "open"]
       \/ sqlDB = "nil" /\ Stmts = EmptyMap
    /\ pool \in {"open", "nil"}

SpecClose == CloseInit /\ [][CloseNext]_vars

\* Before a constructor has run: no handle, no statement, no pool.
NewInit ==
    /\ clock = 0
    /\ NewMockDB
    /\ NoCallers
    /\ NewSQLiteDB
    /\ NewPostgresDB
    /\ rq = NoQuery
    /\ closeRet = NoClose
    /\ newRet = [sqlite |-> "none", postgres |-> "none"]
    /\ sqlDB = "nil"
    /\ Stmts = EmptyMap
    /\ pool = "nil"

SpecNew == NewInit /\ [][NewNext]_vars

\* Close running while callers read: getStmt and Close take db.Mu, the use of
\* the statement takes no lock.
CloseRaceNext ==
    \/ \E p \in Procs : \E d \in SqlTimes \cup {SiblingTime} : SqlCallRead(p, d)
    \/ \E p \in Procs : SqlCancel(p)
    \/ \E p \in Procs : SqlReadHealthRecord(p)
    \/ SQLiteDBClose

SpecCloseRace == Init /\ [][CloseRaceNext]_vars

SpecRange == RangeInit /\ [][RangeNext]_vars

\* ------------------------------------------------------------------------
\* Claims about the embedded backend (checked under SpecSQLite)
\* ------------------------------------------------------------------------

\* A step in which the operation of p returns.
SqlReturns(p) == pc[p] # "idle" /\ pc'[p] = "idle"

\* C3: a ReadHealthRecord(d) run with a live context returns no error and the
\* record whose StepCount the latest successful create or update of d wrote,
\* and the absent result (nil, nil) when d was never created or was deleted
\* since.
C3_ReadSeesLatestWrite ==
    [][\A p \in Procs :
          (pc[p] = "read" /\ SqlReturns(p) /\ ~ctxDone[p])
            => /\ res'[p].err = "nil"
               /\ IF call[p].date \in DOMAIN last
                    THEN /\ res'[p].rec.ID # 0
                         /\ res'[p].rec.Date = call[p].date
                         /\ res'[p].rec.StepCount = last[call[p].date]
                    ELSE res'[p].rec = NoRow]_vars

\* C3 witness: a read has returned a record that an update had changed.
C3_Witness ==
    \E p \in Procs :
        /\ pc[p] = "idle" /\ res[p].err = "nil" /\ res[p].rec.ID # 0
        /\ res[p].rec.UpdatedAt > res[p].rec.CreatedAt

C5_CancelledNeverVisible ==
    [][\A p \in Procs :
          (pc[p] \in InProgress /\ ctxDone[p] /\ pc'[p] # pc[p]) => table' = table]_vars

\* C5 amended: an operation whose context is done when, or before, withTxContext
\* re-checks it after the body returns the context's error at its next step
\* and makes no write visible.
PreCommit == {"insert", "probe", "write", "recheck"}

C5_CancelledBeforeRecheckNotVisible ==
    [][\A p \in Procs :
          /\ (pc[p] \in PreCommit /\ ctxDone[p] /\ pc'[p] # pc[p])
                => (SqlReturns(p) /\ res'[p].err = "ctx" /\ table' = table)
          /\ (pc[p] = "idle" /\ res'[p] # res[p] /\ res'[p].err = "ctx")
                => table' = table]_vars

\* C5 witness: a transaction holds an uncommitted write, its context is done,
\* and the re-check is what comes next.
C5_Witness ==
    \E p \in Procs : pc[p] = "recheck" /\ ctxDone[p] /\ txw[p].kind # "none"

\* C6: the committed rows change only in a step in which an operation commits
\* and returns success; a step in which a mutating operation returns an error
\* leaves the committed rows and the sequence as they were.
C6_FailureLeavesTable ==
    [][/\ (table' # table \/ seq' # seq)
            => \E p \in Procs : pc[p] = "commit" /\ SqlReturns(p) /\ res'[p].err = "nil"
       /\ \A p \in Procs :
            (res'[p] # res[p] /\ res'[p].err \notin {"nil", "none"})
              => (table' = table /\ seq' = seq)]_vars

\* C6 witness: one operation has failed at commit and the row it tried to
\* insert is not in the table.
C6_Witness ==
    \E p \in Procs : pc[p] = "idle" /\ res[p].err = "commit" /\ DOMAIN table = {SiblingTime}

\* What the backend itself reports in an error: its messages without the
\* text of the engine, and the context's error, which is handed on as it is.
ReportedCondition(e) == SelectSeq(e, LAMBDA m : m \notin {EngineUniqueViolation, EngineFailure})

PgReturns(p) == pgPc[p] # "idle" /\ pgPc'[p] = "idle"

\* C10: of the DeleteHealthRecord calls that run concurrently for one existing
\* date, the only call that returns success is the one whose commit removes
\* the record (so exactly one succeeds); the sibling record is never touched.
C10_OnlyTheRemovingDeleteSucceeds ==
    [][\A p \in Procs :
          (pgCall[p].op = "delete" /\ PgReturns(p) /\ pgRes'[p].err = "nil")
            => /\ pgCall[p].date \in DOMAIN pgTable
               /\ pgCall[p].date \notin DOMAIN pgTable'
               /\ pgTable'[PgSiblingTime] = pgTable[PgSiblingTime]]_vars

\* Failures of the server or the network, which no caller causes.
PgFaults == {"begin", "check", "stmt", "commit"}

\* C11: when UpdateHealthRecord calls for one existing date run concurrently
\* (in either variant of the backend), no call fails because of the others
\* (a call returns success unless its own context ended or the server
\* failed), a successful call stores exactly the StepCount it supplied and
\* changes nothing but StepCount and UpdatedAt, and the stored StepCount
\* changes only in the step in which a call commits its own value: the value
\* stored afterwards is the one of the call that committed last.
C11_LastCommittedUpdateWins ==
    [][/\ \A p \in Procs :
            (pgCall[p].op = "update" /\ PgReturns(p))
              => /\ pgRes'[p].err \in {"nil", "ctx"} \cup PgFaults
                 /\ pgRes'[p].err = "nil"
                      => /\ DOMAIN pgTable' = DOMAIN pgTable
                         /\ pgTable'[pgCall[p].date].StepCount = pgCall[p].steps
                         /\ pgTable'[pgCall[p].date].ID = pgTable[pgCall[p].date].ID
                         /\ pgTable'[pgCall[p].date].CreatedAt = pgTable[pgCall[p].date].CreatedAt
                         /\ pgTable'[PgSiblingTime] = pgTable[PgSiblingTime]
       /\ pgTable' # pgTable
            => \E p \in Procs : /\ pgCall[p].op = "update" /\ PgReturns(p)
                                /\ pgRes'[p].err = "nil"]_vars

\* C11 witness: one update holds the row lock and is about to commit its
\* value while the update of the other caller, with another value, waits for
\* the lock; the row carries the value of an update committed before.
C11_Witness ==
    \E p \in Procs : \E q \in Procs \ {p} :
        /\ pgPc[p] = "commit" /\ pgLock = p /\ pgTx[p].kind = "update"
        /\ pgPc[q] = "exec" /\ pgCall[q].steps # pgCall[p].steps
        /\ pgTable[pgCall[p].date].UpdatedAt > pgTable[pgCall[p].date].CreatedAt

\* C13: the connections out of the pool are exactly those of the updates and
\* deletes that are running between Begin and their return: an operation that
\* has returned, on whatever path, has ended its transaction and given its
\* connection back.
C13_NoConnectionOutlivesItsOperation ==
    pgHeld = Cardinality({p \in Procs : pgPc[p] \in {"check", "exec", "commit"}})

PgNoNegativeStepCount == \A d \in DOMAIN pgTable : pgTable[d].StepCount >= 0

C16_NegativeStepCountRefused ==
    /\ []PgNoNegativeStepCount
    /\ [][\A p \in Procs :
             (pgCall[p].op \in {"create", "update"} /\ PgReturns(p))
               => /\ pgCall[p].steps < 0 => (pgRes'[p].err # "nil" /\ pgTable' = pgTable)
                  /\ pgCall[p].steps \in {0, MaxInt32} => pgRes'[p].err # "constraint"]_vars

\* ------------------------------------------------------------------------
\* Claims about Close (checked under SpecClose)
\* ------------------------------------------------------------------------

\* C12: every call of Close, on either backend, whether the value was
\* opened, is closed already or was never opened, returns without panicking,
\* and returns nil unless the driver failed to close a statement or a
\* connection.
C12_CloseNeverFails ==
    closeRet.err \in {"none", "nil", "stmtclose", "dbclose"}

\* C24: after SQLiteDB.Close has returned, with nil or with the error of a
\* statement that failed to close, every prepared statement of the lookup and
\* the database handle are closed.
C24_CloseReleasesEverything ==
    (closeRet.backend = "sqlite" /\ closeRet.err \in {"nil", "stmtclose"})
      => /\ sqlDB = "closed"
         /\ \A n \in DOMAIN Stmts : Stmts[n] = "closed"

\* ------------------------------------------------------------------------
\* Claims about the fault toggles of MockDB (checked under SpecMockFaults and
\* SpecMockToggles)
\* ------------------------------------------------------------------------
AnyToggleSet == simulateTimeout \/ simulateContextCancel \/ simulateDBError

TogglesUnchanged ==
    UNCHANGED <<simulateTimeout, simulateContextCancel, simulateDBError>>

\* C25: while a toggle is set, a create, update or delete returns an error
\* and no record, and GetStoredRecordDirectly gives for every date what it
\* gave before the call; a ReadHealthRecord run with the toggles cleared
\* returns what GetStoredRecordDirectly gives, and the setters and the read
\* leave the store alone.
C25_FaultLeavesStore ==
    [][/\ (AnyToggleSet /\ mret' # mret /\ mret'.op \in {"create", "update", "delete"})
            => /\ mret'.err \notin {"nil", "none"}
               /\ mret'.rec = NoRow
               /\ \A t \in MockTimes :
                     GetStoredRecordDirectly(records', t) = GetStoredRecordDirectly(records, t)
       /\ (~AnyToggleSet /\ mret' # mret /\ mret'.op = "read")
            => /\ mret'.err = "nil"
               /\ mret'.rec = GetStoredRecordDirectly(records, mret'.date)
       /\ (~TogglesUnchanged \/ (mret' # mret /\ mret'.op = "read"))
            => records' = records]_vars

\* C25 witness: with the connection-error toggle set and a record stored, a
\* create for another day has just been refused.
C25_Witness ==
    /\ simulateDBError /\ ~simulateTimeout /\ ~simulateContextCancel
    /\ mret.op = "create" /\ mret.err = "ErrDataBaseConnection"
    /\ DOMAIN records # {}
    /\ normalizeDate(mret.date) \notin DOMAIN records

\* What a step of a contract operation answered (the single-record
\* operations answer in mret, the range reads in rq).
MockAnswered(e) ==
    /\ TogglesUnchanged
    /\ \/ mret' # mret /\ mret'.err = e
       \/ rq' # rq /\ rq'.err = e

MockOperationStep == TogglesUnchanged /\ (mret' # mret \/ rq' # rq)

FaultConditions == {"DeadlineExceeded", "Canceled", "ErrDataBaseConnection"}

\* C26 as stated: each toggle alone decides the answer, whatever the others:
\* timeout set gives DeadlineExceeded, cancel set gives Canceled,
\* connection-error set gives ErrDataBaseConnection, and with none set no
\* operation answers one of the three.
C26_TogglesIndependent ==
    [][MockOperationStep
         => /\ simulateTimeout => MockAnswered("DeadlineExceeded")
            /\ simulateContextCancel => MockAnswered("Canceled")
            /\ simulateDBError => MockAnswered("ErrDataBaseConnection")
            /\ ~AnyToggleSet => \A e \in FaultConditions : ~MockAnswered(e)]_vars

\* C26 amended: the toggles are looked at in the order timeout, cancel,
\* connection-error and the first one set decides the answer of every
\* operation; with none set no operation answers one of the three.
C26_FirstSetToggleDecides ==
    [][MockOperationStep
         => /\ simulateTimeout => MockAnswered("DeadlineExceeded")
            /\ (~simulateTimeout /\ simulateContextCancel) => MockAnswered("Canceled")
            /\ (~simulateTimeout /\ ~simulateContextCancel /\ simulateDBError)
                 => MockAnswered("ErrDataBaseConnection")
            /\ ~AnyToggleSet => \A e \in FaultConditions : ~MockAnswered(e)]_vars

\* C26 witness: all three toggles are set and an update has just answered
\* with the timeout condition.
C26_Witness ==
    /\ simulateTimeout /\ simulateContextCancel /\ simulateDBError
    /\ mret.op = "update" /\ mret.err = "DeadlineExceeded"

\* C27: a prepared statement an operation has obtained from the lookup and
\* has not used yet is not closed by Close: while a ReadHealthRecord stands
\* between its getStmt and its query, its statement stays open.
C27_StatementInUseNotClosed ==
    [][\A p \in Procs :
         (pc[p] = "read" /\ pc'[p] = "read" /\ Stmts["select_health_record"] = "open")
           => Stmts'["select_health_record"] = "open"]_vars

\* ------------------------------------------------------------------------
\* Claims about the range reads (checked under SpecRange)
\* ------------------------------------------------------------------------

\* The first day of the period of a query and the first day of the period
\* after it, as the contract words them.
PeriodStart(q) == MkTime(<<q.year, IF q.kind = "year" THEN 1 ELSE q.month, 1>>, 0)

PeriodEnd(q) ==
    IF q.kind = "year" \/ q.month = 12
      THEN MkTime(<<q.year + 1, 1, 1>>, 0)
      ELSE MkTime(<<q.year, q.month + 1, 1>>, 0)

InPeriod(t, q) == ~Before(t, PeriodStart(q)) /\ Before(t, PeriodEnd(q))

StoreAsked(q) ==
    IF q.backend = "mock" THEN records ELSE IF q.backend = "sqlite" THEN table ELSE pgTable

\* C9: a by-year or by-year-and-month read returns exactly the stored records
\* whose date d has periodStart <= d < periodEnd, in strictly ascending order
\* of date (the empty list when none matches), whichever of the three
\* implementations answers.
C9_RangeReadExactAndOrdered ==
    rq.kind # "none" =>
        /\ rq.err = "nil"
        /\ \A i \in 1..Len(rq.list) :
              rq.list[i] \in RowsOf(StoreAsked(rq)) /\ InPeriod(rq.list[i].Date, rq)
        /\ \A r \in RowsOf(StoreAsked(rq)) :
              InPeriod(r.Date, rq) => \E i \in 1..Len(rq.list) : rq.list[i] = r
        /\ \A i \in 1..Len(rq.list) : \A j \in 1..Len(rq.list) :
              i < j => Before(rq.list[i].Date, rq.list[j].Date)

\* C9 witness: with records on 2024-01-01, 2024-01-31 and 2024-02-01 the read
\* of January 2024 has returned the first two.
C9_Witness ==
    /\ rq.kind = "month" /\ rq.year = 2024 /\ rq.month = 1
    /\ MkTime(<<2024, 2, 1>>, 0) \in DOMAIN StoreAsked(rq)
    /\ Len(rq.list) = 2
    /\ rq.list[1].Date = MkTime(<<2024, 1, 1>>, 0)
    /\ rq.list[2].Date = MkTime(<<2024, 1, 31>>, 0)

\* ------------------------------------------------------------------------
\* Claims about the test double (checked under SpecMock)
\* ------------------------------------------------------------------------

\* C1: a CreateHealthRecord whose calendar date (its normalized date) already
\* has a stored record returns ErrDuplicateRecord and leaves the store as it
\* was.
C1_DuplicateCreateRejected ==
    [][(mret'.op = "create" /\ normalizeDate(mret'.date) \in DOMAIN records)
          => (mret'.err = "ErrDuplicateRecord" /\ records' = records)]_vars

\* C2: of two CreateHealthRecord calls for the same date that run one right
\* after the other (the two orders of two concurrent calls under the mutex),
\* the second returns ErrDuplicateRecord when the first succeeded, and the
\* record the first one stored is the one that exists afterwards.
C2_SecondCreateOfSameDateRejected ==
    [][(mret.op = "create" /\ mret.err = "nil"
          /\ mret'.op = "create" /\ mret'.date = mret.date)
          => (mret'.err = "ErrDuplicateRecord" /\ records' = records)]_vars

\* C7: all live records have pairwise distinct ids, and a step that neither
\* deletes nor creates a key leaves the id stored under that key unchanged.
IdsDistinct ==
    \A k1 \in DOMAIN records : \A k2 \in DOMAIN records :
        k1 # k2 => records[k1].ID # records[k2].ID

IdsStable ==
    \A k \in (DOMAIN records) \cap (DOMAIN records') : records'[k].ID = records[k].ID

C7_IdsUniqueAndImmutable == []IdsDistinct /\ [][IdsStable]_vars

\* C17: after a successful CreateHealthRecord the record stored for the date
\* (the one a read returns right afterwards) has a non-zero ID, the StepCount
\* that was passed in, and CreatedAt equal to UpdatedAt.
C17_CreatedRecordStampedOnce ==
    [][(mret'.op = "create" /\ mret'.err = "nil")
          => LET k == normalizeDate(mret'.date)
             IN /\ k \in DOMAIN records'
                /\ records'[k].ID # 0
                /\ records'[k].StepCount = mret'.steps
                /\ records'[k].CreatedAt = records'[k].UpdatedAt]_vars

\* C18: every stored record has UpdatedAt >= CreatedAt, and no operation
\* changes the CreatedAt of a record (the row with the same ID) that it
\* leaves in the table; the clock never goes backwards.
PgStampsOrdered ==
    \A d \in DOMAIN pgTable : pgTable[d].UpdatedAt >= pgTable[d].CreatedAt

PgCreatedAtStable ==
    \A d \in (DOMAIN pgTable) \cap (DOMAIN pgTable') :
        pgTable'[d].ID = pgTable[d].ID => pgTable'[d].CreatedAt = pgTable[d].CreatedAt

C18_UpdatedAtNotBeforeCreatedAt ==
    /\ [][clock' >= clock]_vars
    /\ []PgStampsOrdered
    /\ [][PgCreatedAtStable]_vars

\* C19: from the moment the existence probe of UpdateHealthRecord or
\* DeleteHealthRecord of SQLiteDB has found the record until the operation
\* returns, the record of the date is there and no other caller changes or
\* removes it; a successful return modifies (removes) exactly that record.
SqlProbed(p) ==
    /\ pc[p] \in {"write", "recheck", "commit"}
    /\ call[p].op \in {"update", "delete"}

C19_ProbeAndMutationAtomic ==
    [][\A p \in Procs :
         SqlProbed(p) =>
           LET d == call[p].date
           IN /\ d \in DOMAIN table
              /\ IF SqlReturns(p) /\ res'[p].err = "nil"
                   THEN IF call[p].op = "delete"
                          THEN table' = MapDelete(table, d)
                          ELSE /\ d \in DOMAIN table'
                               /\ table' = [table EXCEPT ![d].StepCount = call[p].steps,
                                                        ![d].UpdatedAt = table'[d].UpdatedAt]
                   ELSE /\ d \in DOMAIN table'
                        /\ table'[d] = table[d]]_vars

\* C19 witness: a delete has removed the record a create had committed, while
\* another caller is inside its own transaction on the same date, about to
\* run its probe.
C19_Witness ==
    \E p, q \in Procs : \E d \in SqlTimes :
        /\ p # q
        /\ pc[p] = "idle" /\ res[p].err = "nil" /\ res[p].rec = NoRow
        /\ seq > SiblingRow.ID /\ d \notin DOMAIN table /\ d \notin DOMAIN last
        /\ pc[q] = "probe" /\ call[q].date = d /\ call[q].op = "update"

\* C20: whenever withTxContext is not running for a caller (it has returned
\* or let a panic pass), the transaction it opened is finished: the caller
\* has no open transaction, no uncommitted write and no lock, whichever way
\* it left (body error, body panic, context done after the body, commit
\* succeeded, commit failed, rollback failed).
SqlTxFinished(p) == txw[p] = NoWrite /\ writer # p /\ p \notin readers

C20_NoTxOutlivesWithTxContext ==
    \A p \in Procs : pc[p] \notin InTx => SqlTxFinished(p)

\* C20 witness: one caller's body has panicked and the panic has passed
\* through withTxContext, another caller's commit has failed, and a create
\* has committed.
C20_Witness ==
    \E p, q \in Procs :
        /\ pc[p] = "idle" /\ res[p].err = "panic"
        /\ pc[q] = "idle" /\ res[q].err = "commit"
        /\ seq > SiblingRow.ID

\* C21: at the re-check of withTxContext (the body returned nil) a done
\* context makes the operation roll back and return the context's own error
\* without Commit being called; a live context leads to Commit, and the
\* operation then returns nil with its write applied or the commit failure
\* with the rows as they were.
C21_RecheckDecidesCommit ==
    [][\A p \in Procs :
         /\ (pc[p] = "recheck" /\ pc'[p] # pc[p])
               => IF ctxDone[p]
                    THEN /\ SqlReturns(p) /\ res'[p].err = "ctx"
                         /\ SqlCreateError("recheck", res'[p].err, FALSE) = <<ContextError>>
                         /\ table' = table /\ seq' = seq
                         /\ txw'[p] = NoWrite
                    ELSE pc'[p] = "commit" /\ table' = table /\ txw'[p] = txw[p]
         /\ (pc[p] = "commit" /\ pc'[p] # pc[p])
               => /\ SqlReturns(p)
                  /\ \/ res'[p].err = "nil" /\ table' = SqlApply(table, txw[p])
                     \/ res'[p].err = "commit" /\ table' = table
         /\ pc'[p] = "commit" => pc[p] \in {"recheck", "commit"}]_vars

\* C21 witness: a create whose body has run stands at the re-check with its
\* context done, after another caller's operation went through the re-check
\* to a Commit that failed.
C21_Witness ==
    \E p, q \in Procs :
        /\ pc[p] = "recheck" /\ ctxDone[p] /\ txw[p].kind = "insert"
        /\ pc[q] = "idle" /\ res[q].err = "commit"

\* C22: a step in which the body of withTxContext fails ends the operation
\* there: the transaction is rolled back (no write, no lock left), Commit is
\* not reached, the rows stay, and the error returned wraps the body's error
\* whether or not the rollback failed; a context error raised by a statement
\* stays recognisable as the context error.
C22_BodyErrorRolledBackAndWrapped ==
    [][\A p \in Procs :
         (pc[p] \in {"insert", "probe", "write"} /\ pc'[p] \notin {pc[p], "write", "recheck"})
           => /\ SqlReturns(p)
              /\ res'[p].err \in {"ctx", "stmt", "unique", "notfound"}
              /\ table' = table /\ seq' = seq
              /\ txw'[p] = NoWrite /\ writer' # p /\ p \notin readers'
              /\ \A rbFailed \in BOOLEAN :
                    LET e == SqlBodyError(call[p].op, pc[p], res'[p].err)
                        r == SqlBodyErrorReturned(e, rbFailed)
                    IN /\ ErrorsIs(r, e)
                       /\ res'[p].err = "ctx" => ErrorsIs(r, <<ContextError>>)]_vars

\* C22 witness: one caller's create was refused by the UNIQUE constraint and
\* another caller's statement failed; both operations have returned.
C22_Witness ==
    \E p, q \in Procs :
        /\ pc[p] = "idle" /\ res[p].err = "unique"
        /\ pc[q] = "idle" /\ res[q].err = "stmt"

\* C23: the single-statement UpdateHealthRecord and DeleteHealthRecord run
\* their one statement in one step and return not-found exactly when it ran
\* and affected no row; a failed statement returns another error, which wraps
\* the driver's (a context error stays recognisable), and leaves the rows.
C23_ZeroRowsIsNotFound ==
    [][\A p \in Procs :
         (pgPc[p] = "stmt" /\ pgPc'[p] # pgPc[p])
           => LET d == pgCall[p].date
                  e == pgRes'[p].err
                  r == PgxPoolError(pgCall[p].op, e)
              IN /\ PgReturns(p)
                 /\ e = "notfound" => (d \notin DOMAIN pgTable /\ pgTable' = pgTable)
                 /\ d \notin DOMAIN pgTable => (e \in {"notfound", "ctx", "stmt"}
                                                 /\ pgTable' = pgTable)
                 /\ e = "nil" => /\ d \in DOMAIN pgTable
                                 /\ IF pgCall[p].op = "delete"
                                      THEN pgTable' = MapDelete(pgTable, d)
                                      ELSE /\ DOMAIN pgTable' = DOMAIN pgTable
                                           /\ pgTable'[d].StepCount = pgCall[p].steps
                 /\ e \in {"ctx", "stmt", "constraint"}
                      => /\ pgTable' = pgTable
                         /\ r # PgxPoolError(pgCall[p].op, "notfound")
                         /\ ErrorsIs(r, PgCause(e))
                 /\ e = "ctx" => ErrorsIs(r, <<ContextError>>)]_vars

\* C23 witness: a delete has removed the record a create had stored, and
\* another caller's update or delete of that date has then returned
\* not-found.
C23_Witness ==
    \E p, q \in Procs : \E d \in PgTimes :
        /\ p # q
        /\ pgPc[p] = "idle" /\ pgRes[p].err = "nil" /\ pgRes[p].rec = NoRow
        /\ pgPc[q] = "idle" /\ pgRes[q].err = "notfound"
        /\ pgSeq > PgSiblingRow.ID /\ d \notin DOMAIN pgTable

\* C8: a successful UpdateHealthRecord for date d changes only StepCount and
\* UpdatedAt of the record of d: its ID, Date and CreatedAt stay, the set of
\* keys stays, and every record of another date stays as it was.
C8_UpdateFrame ==
    [][(mret'.op = "update" /\ mret'.err = "nil")
          => LET k == normalizeDate(mret'.date)
             IN /\ DOMAIN records' = DOMAIN records
                /\ k \in DOMAIN records
                /\ records'[k].ID = records[k].ID
                /\ records'[k].Date = records[k].Date
                /\ records'[k].CreatedAt = records[k].CreatedAt
                /\ records'[k].StepCount = mret'.steps
                /\ \A x \in DOMAIN records : x # k => records'[x] = records[x]]_vars

\* C8 witness: an update has succeeded on a record that has a sibling, and it
\* moved UpdatedAt past CreatedAt.
C8_Witness ==
    /\ mret.op = "update" /\ mret.err = "nil"
    /\ Cardinality(DOMAIN records) = 2
    /\ normalizeDate(mret.date) \in DOMAIN records
    /\ records[normalizeDate(mret.date)].UpdatedAt > records[normalizeDate(mret.date)].CreatedAt
    /\ records[normalizeDate(mret.date)].StepCount = mret.steps

\* C28: the update handler answers a well-formed request with the updated
\* record or with an error response; it never dereferences an absent record,
\* also when the record is deleted between its update and its read-back.
C28_UpdateAlwaysAnswers == hreq.resp # "panic"

\* A later update or delete on the store, and a change the caller makes to
\* the record it holds.
MockStoreStep == mret' # mret /\ mret'.op \in {"update", "delete"}

MockCallerStep == mret' = mret /\ held' # held

\* C30: a record handed out by CreateHealthRecord or ReadHealthRecord is a
\* snapshot: a later update or delete on the store changes neither its
\* StepCount nor its UpdatedAt, and a caller that modifies the record it was
\* handed does not change what the store holds.
C30_ReturnedRecordIsSnapshot ==
    [][/\ (MockStoreStep /\ held.rec # NoRow) =>
            /\ held'.rec.StepCount = held.rec.StepCount
            /\ held'.rec.UpdatedAt = held.rec.UpdatedAt
       /\ MockCallerStep => records' = records]_vars

\* C29: when a constructor returns an error after it opened its engine
\* handle, everything it opened has been released: after a failure of table
\* creation or statement preparation the SQLite handle and the statements
\* prepared so far are closed, and after a failure of ping or table creation
\* the Postgres pool is closed.
C29_FailedConstructorReleases ==
    /\ newRet.sqlite \in {"creating table", "preparing statements"} =>
          /\ sqlDB # "open"
          /\ \A n \in DOMAIN Stmts : Stmts[n] # "open"
    /\ newRet.postgres \in {"failed to ping postgres", "failed to create table"} =>
          pool # "open"

====
